---- MODULE Spec2Model ----
(***************************************************************************)
(* Model of the B&H camera monitor: scraper.py (one scheduled run of main: *)
(* fetch through ScraperAPI, parse, diff against data/cameras.json, write  *)
(* the registry and new_cameras.txt) and send_notification.py (one POST    *)
(* per recipient for the names of new_cameras.txt).                        *)
(*                                                                         *)
(* A run of scraper.main is split at its outbound requests: MainStart,     *)
(* one ScraperApiGet per attempt, PremiumGet, ParseAndFinish.  Camera      *)
(* names are 1..NumNames, recipients 1..NumRecipients, time is the run     *)
(* counter `now` (datetime.now() of the run).                              *)
(***************************************************************************)
EXTENDS Integers, Sequences, FiniteSets

VARIABLES
    registry,         \* data/cameras.json: [exists, cameras, last_updated, total_cameras_tracked, note]
    signal,           \* new_cameras.txt: [exists, lines]
    now,              \* clock: number of runs of scraper.main started so far
    pc,               \* position of the running scraper.main: idle, fetch, premium, parse, diff
    attempt,          \* scrape_with_scraperapi's attempt argument
    html,             \* html_content: NoHtml (None) or the length of the text
    gets,             \* the GETs issued so far by the running scrape_bh_cameras: [params, resp]
    startReg,         \* the registry file as the current/last run found it
    path,             \* outcome of the current/last run: none, running, nokey, failed, ok
    current_cameras,  \* what scrape_bh_cameras returned in the last run
    new_cameras,      \* the new-items list the last run computed
    wrote,            \* whether the last run called save_cameras
    prevPath,         \* path of the run before the current/last one
    prevB,            \* current_cameras of the run before the current/last one
    reported,         \* names written to new_cameras.txt by some run
    reportedTwice,    \* names written to new_cameras.txt by two different runs
    call,             \* last call of find_new_cameras: [made, A, B, new, all]
    notif             \* last run of send_notification.main: [ran, lines, recipients, key, outcomes, posts]

vars == <<registry, signal, now, pc, attempt, html, gets, startReg, path,
          current_cameras, new_cameras, wrote, prevPath, prevB, reported,
          reportedTwice, call, notif>>

----------------------------------------------------------------------------
\* Bounds of the model.
NumNames == 2
MaxLen == 2
MaxRuns == 2
NumRecipients == 2

\* Program constants.
BodyThreshold == 10000
MaxAttempts == 3

Names == 1..NumNames
Recipients == 1..NumRecipients

\* Sequences over S of length at most n.
BSeq(S, n) == UNION {[1..k -> S] : k \in 0..n}

Range(s) == {s[i] : i \in DOMAIN s}

NoDup(s) == \A i, j \in DOMAIN s : i # j => s[i] # s[j]

----------------------------------------------------------------------------
\* Files.

NoRegistry ==
    [exists |-> FALSE, cameras |-> <<>>, last_updated |-> 0,
     total_cameras_tracked |-> 0, note |-> FALSE]

NoSignal == [exists |-> FALSE, lines |-> <<>>]

\* load_existing_cameras: the document of the file, or the default one.
load_existing_cameras(file) ==
    IF file.exists
    THEN [cameras |-> file.cameras, last_updated |-> file.last_updated]
    ELSE [cameras |-> <<>>, last_updated |-> 0]

\* save_cameras: the file holds the document afterwards.
save_cameras(camera_data) ==
    [exists |-> TRUE, cameras |-> camera_data.cameras,
     last_updated |-> camera_data.last_updated,
     total_cameras_tracked |-> camera_data.total_cameras_tracked,
     note |-> camera_data.note]

\* open('new_cameras.txt', 'w') followed by one line per name.
write_signal(names) == [exists |-> TRUE, lines |-> names]

----------------------------------------------------------------------------
\* find_new_cameras.

\* list(S) of a Python set S: its elements once each, in any order.
ListOfSet(S) == {s \in [1..Cardinality(S) -> S] : Range(s) = S}

NewCamerasKeepsPrevious(current, cameras) == ListOfSet(Range(current))

\* list(new_cameras), new_cameras = current_set - all_previous_cameras
NewCameras(current, cameras) == ListOfSet(Range(current) \ Range(cameras))

AllCamerasDropsPrevious(current, cameras) == ListOfSet(Range(current))

AllCamerasConcat(current, cameras) == {cameras \o current}

\* all_cameras = list(all_previous_cameras | current_set)
AllCameras(current, cameras) == ListOfSet(Range(cameras) \cup Range(current))

\* The possible results (list(new_cameras), all_cameras).
find_new_cameras(current, existing_data) ==
    {[new |-> n, all |-> a] :
        n \in NewCameras(current, existing_data.cameras),
        a \in AllCameras(current, existing_data.cameras)}

NoCall == [made |-> FALSE, A |-> <<>>, B |-> <<>>, new |-> <<>>, all |-> <<>>]

----------------------------------------------------------------------------
\* Fetching.

NoHtml == -1

\* What one requests.get can bring: a response (status code, length of its
\* text), requests.exceptions.Timeout, or another exception.  The length of a
\* non-200 response is never read by a branch, so one length stands for all.
Responses ==
    [kind : {"response"}, status : {200}, len : {0, BodyThreshold, BodyThreshold + 1}]
    \cup [kind : {"response"}, status : {403, 500}, len : {BodyThreshold + 1}]
    \cup [kind : {"timeout", "exception"}, status : {0}, len : {0}]

\* param_sets of scrape_with_scraperapi, and premium_params.
param_sets ==
    << [render |-> TRUE,  country_code |-> TRUE,  premium |-> FALSE],
       [render |-> FALSE, country_code |-> TRUE,  premium |-> FALSE],
       [render |-> FALSE, country_code |-> FALSE, premium |-> FALSE] >>

premium_params == [render |-> TRUE, country_code |-> FALSE, premium |-> TRUE]

\* Whether scrape_with_scraperapi returns response.text.
IsSuccess(resp) ==
    resp.kind = "response" /\ resp.status = 200 /\ resp.len > BodyThreshold

RetriesAlways(resp, k) == ~IsSuccess(resp) /\ k < MaxAttempts

\* Whether scrape_with_scraperapi calls itself with attempt + 1.
Retries(resp, k) ==
    ~IsSuccess(resp) /\ resp.kind = "response" /\ resp.status = 500 /\ k < MaxAttempts

\* What the premium request leaves in html_content.
PremiumHtml(resp) ==
    IF resp.kind = "response" /\ resp.status = 200 THEN resp.len ELSE NoHtml

\* `not html_content`
NotHtml(h) == h = NoHtml \/ h = 0

----------------------------------------------------------------------------
\* Parsing: every method of scrape_bh_cameras appends a text only if it is
\* not in cameras_found yet.

RECURSIVE AppendUnique(_, _)
AppendUnique(cameras_found, texts) ==
    IF texts = <<>> THEN cameras_found
    ELSE AppendUnique(
            IF Head(texts) \in Range(cameras_found) THEN cameras_found
            ELSE Append(cameras_found, Head(texts)),
            Tail(texts))

\* The tail of scrape_bh_cameras: [] without content, else the unique texts.
Parse(h, texts) == IF NotHtml(h) THEN <<>> ELSE AppendUnique(<<>>, texts)

----------------------------------------------------------------------------
\* scraper.main

NoNotif ==
    [ran |-> FALSE, lines |-> <<>>, recipients |-> <<>>, key |-> FALSE,
     outcomes |-> <<>>, posts |-> <<>>]

\* The registry a first run can find: no file, or a document of names kept
\* from before (a list this program did not write may repeat a name).
InitRegistries ==
    {NoRegistry} \cup
    {[exists |-> TRUE, cameras |-> c, last_updated |-> 0,
      total_cameras_tracked |-> Len(c), note |-> FALSE] :
        c \in BSeq(Names, MaxLen) \ {<<>>}}

InitCommon ==
    /\ now = 0
    /\ pc = "idle"
    /\ attempt = 1
    /\ html = NoHtml
    /\ gets = <<>>
    /\ path = "none"
    /\ current_cameras = <<>>
    /\ new_cameras = <<>>
    /\ wrote = FALSE
    /\ prevPath = "none"
    /\ prevB = <<>>
    /\ reported = {}
    /\ reportedTwice = {}
    /\ call = NoCall
    /\ notif = NoNotif

Init ==
    /\ registry \in InitRegistries
    /\ signal = NoSignal
    /\ startReg = registry
    /\ InitCommon

\* main up to the key check; without SCRAPER_API_KEY the run ends here.
MainStart(key) ==
    /\ pc = "idle"
    /\ now < MaxRuns
    /\ now' = now + 1
    /\ startReg' = registry
    /\ prevPath' = path
    /\ prevB' = current_cameras
    /\ current_cameras' = <<>>
    /\ new_cameras' = <<>>
    /\ wrote' = FALSE
    /\ gets' = <<>>
    /\ attempt' = 1
    /\ html' = NoHtml
    /\ call' = NoCall
    /\ IF key
       THEN pc' = "fetch" /\ path' = "running"
       ELSE pc' = "idle" /\ path' = "nokey"
    /\ UNCHANGED <<registry, signal, reported, reportedTwice, notif>>

\* One requests.get of scrape_with_scraperapi and what it does with the answer.
ScraperApiGet(resp) ==
    /\ pc = "fetch"
    /\ attempt <= Len(param_sets)
    /\ gets' = Append(gets, [params |-> param_sets[attempt], resp |-> resp])
    /\ IF IsSuccess(resp)
       THEN html' = resp.len /\ pc' = "parse" /\ attempt' = attempt
       ELSE IF Retries(resp, attempt)
            THEN html' = html /\ pc' = "fetch" /\ attempt' = attempt + 1
            ELSE html' = NoHtml /\ pc' = "premium" /\ attempt' = attempt
    /\ UNCHANGED <<registry, signal, now, startReg, path, current_cameras,
                   new_cameras, wrote, prevPath, prevB, reported, reportedTwice,
                   call, notif>>

\* The premium request of scrape_bh_cameras.
PremiumGet(resp) ==
    /\ pc = "premium"
    /\ gets' = Append(gets, [params |-> premium_params, resp |-> resp])
    /\ html' = PremiumHtml(resp)
    /\ pc' = "parse"
    /\ UNCHANGED <<registry, signal, now, attempt, startReg, path, current_cameras,
                   new_cameras, wrote, prevPath, prevB, reported, reportedTwice,
                   call, notif>>

FirstRunAlways(existing_data) == TRUE

\* previous_count == 0
FirstRun(existing_data) == Len(existing_data.cameras) = 0

\* The empty-scrape branch of main.
FinishFailed(existing_data) ==
    /\ path' = "failed"
    /\ new_cameras' = <<>>
    /\ call' = NoCall
    /\ IF FirstRun(existing_data)
       THEN /\ registry' = save_cameras(
                    [cameras |-> <<>>, last_updated |-> now,
                     total_cameras_tracked |-> 0, note |-> TRUE])
            /\ wrote' = TRUE
       ELSE /\ registry' = registry
            /\ wrote' = FALSE
    /\ signal' = write_signal(<<>>)
    /\ UNCHANGED <<reported, reportedTwice>>

\* The rest of main after a non-empty scrape.
FinishOk(current, existing_data) ==
    \E r \in find_new_cameras(current, existing_data) :
        /\ path' = "ok"
        /\ new_cameras' = r.new
        /\ call' = [made |-> TRUE, A |-> existing_data.cameras, B |-> current,
                    new |-> r.new, all |-> r.all]
        /\ registry' = save_cameras(
                [cameras |-> r.all, last_updated |-> now,
                 total_cameras_tracked |-> Len(r.all), note |-> FALSE])
        /\ wrote' = TRUE
        /\ signal' = write_signal(r.new)
        /\ reportedTwice' = reportedTwice \cup (reported \cap Range(r.new))
        /\ reported' = reported \cup Range(r.new)

\* The tail of scrape_bh_cameras: without content it returns [] before any
\* parsing; with content, `texts` are the texts its three methods come to
\* append, in order.  The locals of the fetch phase end here.
ParseHtml(texts) ==
    /\ pc = "parse"
    /\ NotHtml(html) => texts = <<>>
    /\ current_cameras' = Parse(html, texts)
    /\ pc' = "diff"
    /\ attempt' = 1
    /\ html' = NoHtml
    /\ gets' = <<>>
    /\ UNCHANGED <<registry, signal, now, startReg, path, new_cameras, wrote,
                   prevPath, prevB, reported, reportedTwice, call, notif>>

\* main from the return of scrape_bh_cameras to its end.
Finish ==
    /\ pc = "diff"
    /\ LET existing_data == load_existing_cameras(registry)
       IN  IF current_cameras = <<>>
           THEN FinishFailed(existing_data)
           ELSE FinishOk(current_cameras, existing_data)
    /\ pc' = "idle"
    /\ UNCHANGED <<now, attempt, html, gets, startReg, current_cameras,
                   prevPath, prevB, notif>>

Next ==
    \/ \E key \in BOOLEAN : MainStart(key)
    \/ \E resp \in Responses : ScraperApiGet(resp)
    \/ \E resp \in Responses : PremiumGet(resp)
    \/ \E texts \in BSeq(Names, MaxLen) : ParseHtml(texts)
    \/ Finish

Spec == Init /\ [][Next]_vars

----------------------------------------------------------------------------
\* find_new_cameras on its own: any scraped list, duplicates included,
\* against the registry the first run would load.

CallFindNewCameras(current) ==
    /\ pc = "idle"
    /\ now = 0
    /\ LET existing_data == load_existing_cameras(registry)
       IN  \E r \in find_new_cameras(current, existing_data) :
               call' = [made |-> TRUE, A |-> existing_data.cameras, B |-> current,
                        new |-> r.new, all |-> r.all]
    /\ UNCHANGED <<registry, signal, now, pc, attempt, html, gets, startReg, path,
                   current_cameras, new_cameras, wrote, prevPath, prevB, reported,
                   reportedTwice, notif>>

NextFind ==
    \/ Next
    \/ \E current \in BSeq(Names, MaxLen) : CallFindNewCameras(current)

SpecFind == Init /\ [][NextFind]_vars

----------------------------------------------------------------------------
\* send_notification.py

\* What one requests.post can bring: status 202, another status, an exception.
Outcomes == {"202", "other", "exception"}

\* The except branch of the loop returns False.
EndsLoop(outcome) == outcome = "exception"

\* The loop of send_courier_email from recipient i on: the POSTs attempted.
RECURSIVE SendLoop(_, _, _)
SendLoop(recipients, outcomes, i) ==
    IF i > Len(recipients) THEN <<>>
    ELSE LET post == [to |-> recipients[i], outcome |-> outcomes[i]]
         IN  IF EndsLoop(outcomes[i]) THEN <<post>>
             ELSE <<post>> \o SendLoop(recipients, outcomes, i + 1)

\* send_courier_email: the POSTs it attempts.
send_courier_email(new, recipients, key, outcomes) ==
    IF ~key THEN <<>>
    ELSE IF new = <<>> THEN <<>>
    ELSE SendLoop(recipients, outcomes, 1)

\* send_notification.main; recipients_str is EMAIL_RECIPIENTS as the list of
\* its comma-separated entries (empty: the variable is unset or empty), key
\* whether COURIER_API_KEY is set.
NotifyMain(recipients_str, key, outcomes) ==
    /\ pc = "idle"
    /\ LET new == IF signal.exists THEN signal.lines ELSE <<>>
       IN  notif' = [ran |-> TRUE, lines |-> new, recipients |-> recipients_str,
                     key |-> key, outcomes |-> outcomes,
                     posts |-> IF new = <<>> THEN <<>>
                               ELSE IF recipients_str = <<>> THEN <<>>
                               ELSE send_courier_email(new, recipients_str, key, outcomes)]
    /\ UNCHANGED <<registry, signal, now, pc, attempt, html, gets, startReg, path,
                   current_cameras, new_cameras, wrote, prevPath, prevB, reported,
                   reportedTwice, call>>

\* The notification step finds whatever new_cameras.txt a scraper run left.
InitNotify ==
    /\ registry = NoRegistry
    /\ startReg = NoRegistry
    /\ signal \in {NoSignal} \cup {write_signal(l) : l \in BSeq(Names, MaxLen)}
    /\ InitCommon

NextNotify ==
    \E recipients_str \in BSeq(Recipients, NumRecipients), key \in BOOLEAN :
        \E outcomes \in [1..Len(recipients_str) -> Outcomes] :
            NotifyMain(recipients_str, key, outcomes)

SpecNotify == InitNotify /\ [][NextNotify]_vars

----------------------------------------------------------------------------
\* Shorthands for the claims.

RunEnded == pc = "idle" /\ path \in {"nokey", "failed", "ok"}

Set(s) == Range(s)

\* The ScraperAPI attempts among the GETs issued, and the premium ones.
IsPremium(g) == g.params.premium

NumAttempts == Cardinality({i \in DOMAIN gets : ~IsPremium(gets[i])})

Is500(resp) == resp.kind = "response" /\ resp.status = 500

PostedTo == [i \in DOMAIN notif.posts |-> notif.posts[i].to]

----------------------------------------------------------------------------
\* C1: for every previous list A and scraped list B, duplicates and empty
\* lists included, find_new_cameras returns a new-items list whose elements
\* are exactly set(B) - set(A) and an updated list whose elements are exactly
\* set(A) | set(B); a successful run of main calls it with the loaded
\* registry and the scraped list and persists exactly the updated list.
C1_NewIsDifferenceAllIsUnion ==
    /\ call.made =>
          /\ Set(call.new) = Set(call.B) \ Set(call.A)
          /\ Set(call.all) = Set(call.A) \cup Set(call.B)
    /\ (pc = "idle" /\ path = "ok") =>
          /\ call.made
          /\ call.A = startReg.cameras
          /\ call.B = current_cameras
          /\ registry.exists
          /\ registry.cameras = call.all

C1_Witness ==
    /\ call.made
    /\ ~NoDup(call.B)
    /\ ~NoDup(call.A)
    /\ call.new # <<>>

\* C2: the set of names of the persisted registry after a run (successful,
\* failed or without the API key) contains the set persisted before the run.
C2_RegistryNeverShrinks ==
    Set(startReg.cameras) \subseteq Set(registry.cameras)

C2_Witness ==
    /\ pc = "idle"
    /\ path = "ok"
    /\ prevPath \in {"failed", "nokey"}
    /\ startReg.cameras # <<>>
    /\ new_cameras # <<>>

\* C3: when the scrape of a run returns no names, the set of names of the
\* registry after the run equals the set before the run.
C3_EmptyScrapeKeepsRegistry ==
    (pc = "idle" /\ path = "failed") =>
        /\ current_cameras = <<>>
        /\ Set(registry.cameras) = Set(startReg.cameras)

C3_Witness ==
    /\ pc = "idle"
    /\ path = "failed"
    /\ startReg.cameras # <<>>

\* C4: a run with the same scraped list B as the successful run before it
\* finds no new items and leaves the registry's set of names unchanged.
C4_Idempotent ==
    (pc = "idle" /\ path = "ok" /\ prevPath = "ok" /\ current_cameras = prevB) =>
        /\ new_cameras = <<>>
        /\ signal.lines = <<>>
        /\ Set(registry.cameras) = Set(startReg.cameras)

C4_Witness ==
    /\ pc = "idle"
    /\ path = "ok"
    /\ prevPath = "ok"
    /\ current_cameras = prevB
    /\ reported # {}

\* C5: with a non-empty new-items file and a configured recipient list (of
\* distinct recipients, and the Courier key set), exactly one POST is
\* attempted for each recipient of the list whatever the outcome of the
\* other sends; with an empty or absent new-items file no POST is attempted.
C5_OnePostPerRecipient ==
    notif.ran =>
        /\ (/\ notif.lines # <<>>
            /\ notif.recipients # <<>>
            /\ NoDup(notif.recipients)
            /\ notif.key) =>
               PostedTo = notif.recipients
        /\ notif.lines = <<>> => notif.posts = <<>>

\* C6: after every run of main, whichever path it took, new_cameras.txt
\* lists exactly the names this run detected as new, and is empty when it
\* found none.
C6_SignalIsThisRunsNew ==
    RunEnded => signal.lines = new_cameras

\* C7: a failed run (no API key, or an empty scrape) that finds a persisted
\* registry leaves the whole document unchanged, last_updated included.
C7_FailedRunKeepsDocument ==
    (RunEnded /\ path \in {"nokey", "failed"} /\ startReg.exists) =>
        registry = startReg

\* C8: scrape_with_scraperapi issues at most 3 GETs, attempt k with the k-th
\* parameter set, attempt k+1 only after attempt k returned status 500; the
\* premium GET is issued exactly when the attempts returned no content; a
\* run with the API key issues 1 to 4 GETs, a run without it none.
C8_FetchIsBounded ==
    /\ NumAttempts <= MaxAttempts
    /\ Len(gets) <= MaxAttempts + 1
    /\ \A i \in DOMAIN gets :
          /\ ~IsPremium(gets[i]) => (i <= NumAttempts /\ gets[i].params = param_sets[i])
          /\ IsPremium(gets[i]) => (i = Len(gets) /\ i = NumAttempts + 1)
          /\ (i > 1 /\ ~IsPremium(gets[i])) => Is500(gets[i - 1].resp)
    /\ pc = "fetch" => \A i \in DOMAIN gets : Is500(gets[i].resp)
    /\ pc = "premium" =>
          (NumAttempts = Len(gets) /\ Len(gets) >= 1 /\ ~IsSuccess(gets[Len(gets)].resp))
    /\ pc = "parse" =>
          /\ Len(gets) \in 1..(MaxAttempts + 1)
          /\ NumAttempts >= 1
          /\ (NumAttempts < Len(gets)) <=> ~IsSuccess(gets[NumAttempts].resp)
    /\ path = "nokey" => (pc = "idle" /\ gets = <<>>)

C8_Witness ==
    /\ pc = "parse"
    /\ Len(gets) = MaxAttempts + 1

\* C9: every registry document the program writes has a cameras list without
\* duplicates and total_cameras_tracked equal to its length.
C9_WrittenDocumentIsConsistent ==
    (pc = "idle" /\ wrote) =>
        /\ registry.exists
        /\ NoDup(registry.cameras)
        /\ registry.total_cameras_tracked = Len(registry.cameras)

C9_Witness ==
    /\ pc = "idle"
    /\ wrote
    /\ path = "ok"
    /\ ~NoDup(startReg.cameras)

\* C10: the names a run writes to new_cameras.txt are disjoint from the
\* registry as the run found it and contained in the registry it persists,
\* and no name is written to new_cameras.txt by two different runs.
C10_ReportedAtMostOnce ==
    /\ reportedTwice = {}
    /\ (pc = "idle" /\ path = "ok") =>
          /\ Set(new_cameras) \cap Set(startReg.cameras) = {}
          /\ Set(new_cameras) \subseteq Set(registry.cameras)
          /\ NoDup(new_cameras)

C10_Witness ==
    /\ pc = "idle"
    /\ path = "ok"
    /\ prevPath = "ok"
    /\ new_cameras # <<>>
    /\ reported # Set(new_cameras)

====
